---- MODULE Spec2Model ----
(***************************************************************************)
(* Order ledger and order lifecycle of the trading API.                    *)
(*                                                                         *)
(* The persisted Order table is the only mutable state of the core; cash   *)
(* balances and positions are recomputed from it on every check.  Every    *)
(* request (createOrder, cancelOrder, processOrderById,                    *)
(* processPendingOrders) is an async function: between two awaits on the   *)
(* order store another request may run.  One action of this module is one  *)
(* access to the order store together with the synchronous code around it. *)
(* Instruments, users and market data are never written by the service,    *)
(* so reads of them are folded into the neighbouring step.                 *)
(***************************************************************************)
EXTENDS Integers, Sequences, FiniteSets, TLC

\* ------------------------------------------------------------------ bounds
NUsers == 1
NInstruments == 1
NProcs == 2
MaxOrders == 4
MaxSize == 2
MaxPrice == 2
MaxLimitPrice == 1
MaxLimit == 2
MaxAmount == 2
MaxCashAmount == 3
MaxCashLimitPrice == 2
NCashProcs == 1
MaxEmptyOrders == 2
MaxSharedLen == 2
MaxSharedOrders == 3
MaxPending == 3
MaxReplayLen == 3
MaxReplaySize == 2
MaxReplayPrice == 3
SeedCash == 5
SeedShares == 2

Users == 1..NUsers
UserIds == 1..(NUsers + 1)
InstrumentIds == 1..NInstruments
Procs == 1..NProcs
CashProcs == 1..NCashProcs

\* ------------------------------------------------------------------ enums
OrderSide == {"BUY", "SELL", "CASH_IN", "CASH_OUT"}
TradingSide == {"BUY", "SELL"}
OrderType == {"MARKET", "LIMIT"}
OrderStatus == {"NEW", "FILLED", "REJECTED", "CANCELLED"}

\* orders: the orders table, in creation (datetime) order; an order's id is
\* its index.  marketPrice: the latest close of each instrument, 0 when the
\* instrument has no market data.  req: the request each slot is serving.
\* overlapped: history, TRUE once a request began while another one was
\* still awaiting the store.
VARIABLES orders, marketPrice, req, overlapped

vars == <<orders, marketPrice, req, overlapped>>

\* ------------------------------------------------------- repository reads
\* OrderRepository.getAllUserOrders: the user's FILLED and NEW orders in
\* ascending datetime (the table is kept in creation order).
\* Variant: the query has no condition on the user.
getAllUserOrders_everyUser(os, userId) ==
  SelectSeq(os, LAMBDA o : o.status \in {"FILLED", "NEW"})

RECURSIVE getAllUserOrders(_, _)
getAllUserOrders(os, userId) ==
  IF os = <<>> THEN <<>>
  ELSE LET o == Head(os)
           rest == getAllUserOrders(Tail(os), userId)
       IN IF o.userId = userId /\ o.status \in {"FILLED", "NEW"}
          THEN <<o>> \o rest ELSE rest

\* ------------------------------------------------------- CashCalculator
RECURSIVE cashLoop(_, _, _)
cashLoop(allOrders, totalCash, reservedCash) ==
  IF allOrders = <<>>
  THEN [total |-> totalCash, available |-> totalCash - reservedCash,
        reserved |-> reservedCash]
  ELSE LET order == Head(allOrders)
           amount == order.size * order.price
       IN IF order.status = "FILLED"
          THEN cashLoop(Tail(allOrders),
                 CASE order.side = "CASH_IN" -> totalCash + order.size
                   [] order.side = "CASH_OUT" -> totalCash - order.size
                   [] order.side = "BUY" -> totalCash - amount
                   [] order.side = "SELL" -> totalCash + amount
                   [] OTHER -> totalCash,
                 reservedCash)
          ELSE IF order.status = "NEW" /\ order.side = "BUY"
          THEN cashLoop(Tail(allOrders), totalCash, reservedCash + amount)
          ELSE cashLoop(Tail(allOrders), totalCash, reservedCash)

\* Variant: withdrawals are left out of the total.
calculateCashBalance_skipsCashOut(allOrders) ==
  cashLoop(SelectSeq(allOrders, LAMBDA o : o.side # "CASH_OUT"), 0, 0)

\* Variant: available does not subtract the reservations.
calculateCashBalance_availableIsTotal(allOrders) ==
  LET balance == cashLoop(allOrders, 0, 0)
  IN [balance EXCEPT !.available = balance.total]

calculateCashBalance(allOrders) == cashLoop(allOrders, 0, 0)

\* ------------------------------------------------------- PositionCalculator
\* calculatePositionData: replay of the FILLED orders of one instrument.
RECURSIVE positionLoop(_, _, _)
positionLoop(filledOrders, quantity, totalInvestment) ==
  IF filledOrders = <<>>
  THEN [quantity |-> quantity, totalInvestment |-> totalInvestment]
  ELSE LET order == Head(filledOrders)
       IN IF order.side = "BUY"
          THEN positionLoop(Tail(filledOrders), quantity + order.size,
                            totalInvestment + order.size * order.price)
          ELSE IF order.side = "SELL"
          THEN IF quantity <= 0
               THEN positionLoop(Tail(filledOrders), quantity, totalInvestment)
               ELSE positionLoop(Tail(filledOrders), quantity - order.size,
                                 totalInvestment)
          ELSE positionLoop(Tail(filledOrders), quantity, totalInvestment)

calculatePositionData(filledOrders) == positionLoop(filledOrders, 0, 0)

RECURSIVE sumSizes(_)
sumSizes(os) == IF os = <<>> THEN 0 ELSE Head(os).size + sumSizes(Tail(os))

instrumentOrdersOf(allOrders, instrumentId) ==
  SelectSeq(allOrders, LAMBDA o : o.side \in {"BUY", "SELL"}
                                  /\ o.instrumentId = instrumentId)

\* Variant: the reservation counts the SELL orders of any status.
positionOf_reservesEverySell(allOrders, instrumentId) ==
  LET instrumentOrders == instrumentOrdersOf(allOrders, instrumentId)
      calculation == calculatePositionData(
                       SelectSeq(instrumentOrders,
                                 LAMBDA o : o.status = "FILLED"))
      reservedShares == sumSizes(SelectSeq(instrumentOrders,
                          LAMBDA o : o.side = "SELL"))
  IN [total |-> calculation.quantity,
      available |-> calculation.quantity - reservedShares,
      reserved |-> reservedShares]

positionOf(allOrders, instrumentId) ==
  LET instrumentOrders == instrumentOrdersOf(allOrders, instrumentId)
      calculation == calculatePositionData(
                       SelectSeq(instrumentOrders,
                                 LAMBDA o : o.status = "FILLED"))
      reservedShares == sumSizes(SelectSeq(instrumentOrders,
                          LAMBDA o : o.status = "NEW" /\ o.side = "SELL"))
  IN [total |-> calculation.quantity,
      available |-> calculation.quantity - reservedShares,
      reserved |-> reservedShares]

\* calculatePositions: one entry per instrument whose replayed quantity > 0.
calculatePositions(allOrders) ==
  [i \in {j \in InstrumentIds : positionOf(allOrders, j).total > 0}
     |-> positionOf(allOrders, i)]

\* ------------------------------------------------------- financial helpers
\* The sum of f over the set S.
RECURSIVE SetSum(_, _)
SetSum(f, S) ==
  IF S = {} THEN 0
  ELSE LET x == CHOOSE y \in S : TRUE IN f[x] + SetSum(f, S \ {x})

\* The JavaScript numbers of the valuation are kept as exact fractions
\* [n, d] with d > 0, so that a quotient is never rounded.
Frac(i) == [n |-> i, d |-> 1]

FracAdd(a, b) == [n |-> a.n * b.d + b.n * a.d, d |-> a.d * b.d]

FracSub(a, b) == [n |-> a.n * b.d - b.n * a.d, d |-> a.d * b.d]

FracMul(a, b) == [n |-> a.n * b.n, d |-> a.d * b.d]

\* a / b for b > 0.
FracDiv(a, b) == [n |-> a.n * b.d, d |-> a.d * b.n]

FracEq(a, b) == a.n * b.d = b.n * a.d

FracLeq(a, b) == a.n * b.d <= b.n * a.d

\* Variant: the ratio of the current amount to the base, times 100.
calculatePerformancePercent_ratio(currentAmount, baseAmount) ==
  IF FracLeq(baseAmount, Frac(0)) \/ FracLeq(currentAmount, Frac(0))
  THEN Frac(0)
  ELSE FracMul(FracDiv(currentAmount, baseAmount), Frac(100))

calculatePerformancePercent(currentAmount, baseAmount) ==
  IF FracLeq(baseAmount, Frac(0)) \/ FracLeq(currentAmount, Frac(0))
  THEN Frac(0)
  ELSE FracMul(FracDiv(FracSub(currentAmount, baseAmount), baseAmount),
               Frac(100))

calculateMarketValue(quantity, pricePerUnit) == quantity * pricePerUnit

\* calculatePositionData with its average cost and realized gains: the same
\* replay as positionLoop, carrying the two fractions.
RECURSIVE returnLoop(_, _, _, _, _)
returnLoop(filledOrders, quantity, averageCost, totalInvestment, realizedGains) ==
  IF filledOrders = <<>>
  THEN [quantity |-> quantity, averageCost |-> averageCost,
        totalInvestment |-> totalInvestment, realizedGains |-> realizedGains]
  ELSE LET order == Head(filledOrders)
           pricePerUnit == order.price
       IN IF order.side = "BUY"
          THEN LET totalCost == FracAdd(FracMul(Frac(quantity), averageCost),
                                        Frac(order.size * pricePerUnit))
                   newQuantity == quantity + order.size
               IN returnLoop(Tail(filledOrders), newQuantity,
                             IF newQuantity > 0
                             THEN FracDiv(totalCost, Frac(newQuantity))
                             ELSE Frac(0),
                             totalInvestment + order.size * pricePerUnit,
                             realizedGains)
          ELSE IF order.side = "SELL"
          THEN IF quantity <= 0
               THEN returnLoop(Tail(filledOrders), quantity, averageCost,
                               totalInvestment, realizedGains)
               ELSE returnLoop(Tail(filledOrders), quantity - order.size,
                               averageCost, totalInvestment,
                               FracAdd(realizedGains,
                                       FracMul(FracSub(Frac(pricePerUnit),
                                                       averageCost),
                                               Frac(order.size))))
          ELSE returnLoop(Tail(filledOrders), quantity, averageCost,
                          totalInvestment, realizedGains)

\* Variant: the average cost is the total investment over the quantity held.
calculatePositionReturn_investmentOverQuantity(filledOrders, currentMarketPrice) ==
  LET r == returnLoop(filledOrders, 0, Frac(0), 0, Frac(0))
  IN [quantity |-> r.quantity,
      averageCost |-> IF r.quantity > 0
                      THEN FracDiv(Frac(r.totalInvestment), Frac(r.quantity))
                      ELSE Frac(0),
      marketValue |-> calculateMarketValue(r.quantity, currentMarketPrice),
      totalReturnPercent |-> Frac(0),
      totalInvestment |-> r.totalInvestment,
      realizedGains |-> r.realizedGains]

calculatePositionReturn(filledOrders, currentMarketPrice) ==
  LET r == returnLoop(filledOrders, 0, Frac(0), 0, Frac(0))
      marketValue == calculateMarketValue(r.quantity, currentMarketPrice)
  IN [quantity |-> r.quantity,
      averageCost |-> r.averageCost,
      marketValue |-> marketValue,
      totalReturnPercent |->
        IF r.totalInvestment > 0
        THEN calculatePerformancePercent(
               FracAdd(r.realizedGains, Frac(marketValue)),
               Frac(r.totalInvestment))
        ELSE Frac(0),
      totalInvestment |-> r.totalInvestment,
      realizedGains |-> r.realizedGains]

\* The valuation calculatePositions reports for one instrument of the rows
\* of one user, at the latest market price.
valuationOf(allOrders, instrumentId) ==
  calculatePositionReturn(
    SelectSeq(instrumentOrdersOf(allOrders, instrumentId),
              LAMBDA o : o.status = "FILLED"),
    marketPrice[instrumentId])

\* ------------------------------------------------------- PortfolioService
\* getPortfolio throws when the user does not exist (thrown |-> TRUE).
getPortfolio(os, userId) ==
  LET allOrders == getAllUserOrders(os, userId)
  IN IF userId \notin Users
     THEN [thrown |-> TRUE, cashBalance |-> calculateCashBalance(<<>>),
           positions |-> calculatePositions(<<>>)]
     ELSE [thrown |-> FALSE, cashBalance |-> calculateCashBalance(allOrders),
           positions |-> calculatePositions(allOrders)]

\* getPortfolio, lines 61-66: the cash total plus the market value of the
\* reported positions.
totalValue(os, userId) ==
  LET allOrders == getAllUserOrders(os, userId)
      positions == calculatePositions(allOrders)
      positionsValue ==
        SetSum([i \in DOMAIN positions |->
                  valuationOf(allOrders, i).marketValue], DOMAIN positions)
  IN calculateCashBalance(allOrders).total + positionsValue

\* ------------------------------------------------------- PortfolioValidationService
\* Variant: compares with the total, ignoring the reservations.
checkAvailableCash_ignoresReserved(os, userId, requiredAmount) ==
  LET portfolio == getPortfolio(os, userId)
  IN IF portfolio.thrown THEN FALSE
     ELSE portfolio.cashBalance.total >= requiredAmount

checkAvailableCash(os, userId, requiredAmount) ==
  LET portfolio == getPortfolio(os, userId)
  IN IF portfolio.thrown THEN FALSE
     ELSE portfolio.cashBalance.available >= requiredAmount

\* Variant: compares with the total, ignoring the reservations.
checkAvailableShares_ignoresReserved(os, userId, instrumentId, requiredShares) ==
  LET portfolio == getPortfolio(os, userId)
  IN IF portfolio.thrown THEN FALSE
     ELSE IF instrumentId \notin DOMAIN portfolio.positions THEN FALSE
     ELSE portfolio.positions[instrumentId].total >= requiredShares

checkAvailableShares(os, userId, instrumentId, requiredShares) ==
  LET portfolio == getPortfolio(os, userId)
  IN IF portfolio.thrown THEN FALSE
     ELSE IF instrumentId \notin DOMAIN portfolio.positions THEN FALSE
     ELSE portfolio.positions[instrumentId].available >= requiredShares

\* Variant: a SELL is not checked against the position.
validateOrderFunds_noSellCheck(os, userId, instrumentId, side, size, price) ==
  IF side = "BUY" THEN checkAvailableCash(os, userId, size * price)
  ELSE TRUE

validateOrderFunds(os, userId, instrumentId, side, size, price) ==
  IF side = "BUY" THEN checkAvailableCash(os, userId, size * price)
  ELSE IF side = "SELL"
  THEN checkAvailableShares(os, userId, instrumentId, size)
  ELSE TRUE

\* ------------------------------------------------------- OrderStatusService
determineInitialStatus(os, userId, instrumentId, side, size, price) ==
  IF validateOrderFunds(os, userId, instrumentId, side, size, price)
  THEN "NEW" ELSE "REJECTED"

\* ------------------------------------------------------- OrderCalculationService
\* An absent size, amount or price is 0 (falsy in the source as well).
determineExecutionPrice(type, currentPrice, limitPrice) ==
  IF type = "MARKET" THEN currentPrice
  ELSE IF type = "LIMIT" /\ limitPrice # 0 THEN limitPrice
  ELSE 0

\* Variant: the size for an amount is rounded up.
calculateSize_roundsUp(size, amount, price) ==
  IF size # 0 THEN size
  ELSE IF amount # 0 /\ price > 0 THEN (amount + price - 1) \div price
  ELSE -1

calculateSize(size, amount, price) ==
  IF size # 0 THEN size
  ELSE IF amount # 0 /\ price > 0 THEN amount \div price
  ELSE -1

\* thrown: determineExecutionPrice or calculateSize throws (0 and -1 above).
calculateOrderExecution(type, currentPrice, size, amount, limitPrice) ==
  LET executionPrice == determineExecutionPrice(type, currentPrice, limitPrice)
      executionSize == calculateSize(size, amount, executionPrice)
  IN [thrown |-> (executionPrice = 0 \/ executionSize = -1),
      executionPrice |-> executionPrice, executionSize |-> executionSize]

\* ------------------------------------------------------- OrderService.validateOrder
\* Variant: a MARKET order may carry a price.
validateOrder_allowsMarketPrice(instrumentId, type, size, amount, price) ==
  /\ instrumentId \in InstrumentIds
  /\ ~(type = "LIMIT" /\ price <= 0)

validateOrder(instrumentId, type, size, amount, price) ==
  /\ instrumentId \in InstrumentIds
  /\ ~(type = "LIMIT" /\ price <= 0)
  /\ ~(type = "MARKET" /\ price # 0)

\* ------------------------------------------------------- OrderExecutionService
\* Variant: the order's own reservation is not added back.
validateOrderAtExecutionExcludingCurrent_countsOwn(os, order) ==
  validateOrderFunds(os, order.userId, order.instrumentId, order.side,
                     order.size, order.price)

\* validateOrderAtExecutionExcludingCurrent: TRUE when it returns, FALSE when
\* it throws.  order is the entity loaded by executeOrder.
validateOrderAtExecutionExcludingCurrent(os, order) ==
  LET portfolio == getPortfolio(os, order.userId)
  IN IF portfolio.thrown THEN FALSE
     ELSE IF order.side = "BUY"
     THEN LET orderReservedCash == order.size * order.price
              adjustedAvailable ==
                portfolio.cashBalance.available + orderReservedCash
          IN ~(adjustedAvailable < orderReservedCash)
     ELSE IF order.side = "SELL"
     THEN IF order.instrumentId \notin DOMAIN portfolio.positions THEN FALSE
          ELSE LET adjustedAvailable ==
                     portfolio.positions[order.instrumentId].available
                       + order.size
               IN ~(adjustedAvailable < order.size)
     ELSE TRUE

\* getPortfolio with the market data it reads (steps 4 to 7): the position
\* entries carry currentPrice, marketValue and totalReturnPercent computed
\* at marketPrices, next to the quantity breakdown.
getPortfolioWithPrices(os, userId, marketPrices) ==
  LET allOrders == getAllUserOrders(os, userId)
      calculation(i) ==
        calculatePositionReturn(
          SelectSeq(instrumentOrdersOf(allOrders, i),
                    LAMBDA o : o.status = "FILLED"),
          marketPrices[i])
      held == {i \in InstrumentIds : calculation(i).quantity > 0}
      positions == [i \in held |->
                      [quantity |-> positionOf(allOrders, i),
                       currentPrice |-> marketPrices[i],
                       marketValue |-> calculation(i).marketValue,
                       totalReturnPercent |->
                         calculation(i).totalReturnPercent]]
  IN [thrown |-> userId \notin Users,
      cashBalance |-> calculateCashBalance(allOrders),
      positions |-> positions,
      totalValue |-> calculateCashBalance(allOrders).total
                       + SetSum([i \in held |-> positions[i].marketValue],
                                held)]

\* validateOrderAtExecutionExcludingCurrent on that portfolio.
validateOrderAtExecutionWithPrices(os, order, marketPrices) ==
  LET portfolio == getPortfolioWithPrices(os, order.userId, marketPrices)
  IN IF portfolio.thrown THEN FALSE
     ELSE IF order.side = "BUY"
     THEN LET orderReservedCash == order.size * order.price
              adjustedAvailable ==
                portfolio.cashBalance.available + orderReservedCash
          IN ~(adjustedAvailable < orderReservedCash)
     ELSE IF order.side = "SELL"
     THEN IF order.instrumentId \notin DOMAIN portfolio.positions THEN FALSE
          ELSE LET adjustedAvailable ==
                     portfolio.positions[order.instrumentId].quantity.available
                       + order.size
               IN ~(adjustedAvailable < order.size)
     ELSE TRUE

\* ------------------------------------------------------------------ requests
NoDto ==
  [userId |-> 0, instrumentId |-> 0, side |-> "none", type |-> "none",
   size |-> 0, price |-> 0, status |-> "none"]

\* A free request slot.  op: the entry point; pc: the next store access;
\* oid: the order being worked on; dto: the order createOrder is about to
\* persist; loaded: the status of the entity read by findById/findOne;
\* outcome: the status executeOrder will save; err / result: what the caller
\* gets (pc = "done"); queue: the orders a batch has left.
Idle ==
  [op |-> "idle", pc |-> "idle", oid |-> 0, dto |-> NoDto,
   loaded |-> "none", outcome |-> "none", err |-> "none", result |-> "none",
   queue |-> <<>>]

InFlight(q) == req[q].op # "idle" /\ req[q].pc # "done"

OthersInFlight(p) == \E q \in Procs \ {p} : InFlight(q)

\* The store as the service finds it at start-up, written by earlier runs: a
\* deposit of the first user and a LIMIT BUY of SeedShares at price 1,
\* both FILLED.
SeedRow(side, type, size, price, status) ==
  [userId |-> 1, instrumentId |-> 1, side |-> side, type |-> type,
   size |-> size, price |-> price, status |-> status]

SeedOrders ==
  <<SeedRow("CASH_IN", "MARKET", SeedCash, 1, "FILLED"),
    SeedRow("BUY", "LIMIT", SeedShares, 1, "FILLED")>>

Init ==
  /\ orders = SeedOrders
  /\ marketPrice \in [InstrumentIds -> {0, MaxPrice}]
  /\ req = [p \in Procs |-> Idle]
  /\ overlapped = FALSE

\* ------------------------------------------------------- OrderService.createOrder
\* Lines 49-88: validateOrder, getCurrentPrice, calculateOrderExecution and
\* determineInitialStatus (the read of the user's orders).  The DTO layer
\* admits exactly one of size and amount.
createOrderStart(userId, instrumentId, side, type, size, amount, price) ==
  LET currentPrice == IF instrumentId \in InstrumentIds
                      THEN marketPrice[instrumentId] ELSE 0
      calc == calculateOrderExecution(type, currentPrice, size, amount, price)
  IN IF \/ ~validateOrder(instrumentId, type, size, amount, price)
        \/ currentPrice = 0
        \/ calc.thrown
        \/ calc.executionSize <= 0
     THEN [Idle EXCEPT !.op = "create", !.pc = "done",
                       !.err = "ValidationError"]
     ELSE [Idle EXCEPT !.op = "create", !.pc = "persist",
             !.dto = [userId |-> userId, instrumentId |-> instrumentId,
                      side |-> side, type |-> type,
                      size |-> calc.executionSize,
                      price |-> calc.executionPrice,
                      status |-> determineInitialStatus(orders, userId,
                                   instrumentId, side, calc.executionSize,
                                   calc.executionPrice)]]

\* The table has room for the order of one more createOrder.
HasRoom ==
  Len(orders) + Cardinality({q \in Procs : req[q].pc = "persist"}) < MaxOrders

createOrderAdmit(p, userId, instrumentId, side, type, size, amount, price) ==
  /\ req[p].op = "idle"
  /\ HasRoom
  /\ (size = 0) # (amount = 0)
  /\ req' = [req EXCEPT ![p] =
       createOrderStart(userId, instrumentId, side, type, size, amount, price)]
  /\ overlapped' = (overlapped \/ OthersInFlight(p))
  /\ UNCHANGED <<orders, marketPrice>>

\* Variant: the status is decided again on the table found at the write.
createOrderPersist_rechecks(p) ==
  /\ req[p].op = "create" /\ req[p].pc = "persist"
  /\ LET dto == req[p].dto
         row == [dto EXCEPT !.status =
                   determineInitialStatus(orders, dto.userId, dto.instrumentId,
                                          dto.side, dto.size, dto.price)]
     IN /\ orders' = Append(orders, row)
        /\ req' = [req EXCEPT ![p] =
             IF row.status = "REJECTED"
             THEN [Idle EXCEPT !.op = "create", !.pc = "done",
                               !.result = "REJECTED"]
             ELSE IF row.type = "MARKET"
             THEN [Idle EXCEPT !.op = "create", !.oid = Len(orders) + 1,
                               !.pc = "exec_load"]
             ELSE [Idle EXCEPT !.op = "create", !.pc = "done",
                               !.result = row.status]]
  /\ UNCHANGED <<marketPrice, overlapped>>

\* Lines 90-119: orderRepository.create, then return (REJECTED, or LIMIT) or
\* go on to executeOrder (MARKET).
createOrderPersist(p) ==
  /\ req[p].op = "create" /\ req[p].pc = "persist"
  /\ orders' = Append(orders, req[p].dto)
  /\ req' = [req EXCEPT ![p] =
       IF req[p].dto.status = "REJECTED"
       THEN [Idle EXCEPT !.op = "create", !.pc = "done",
                         !.result = "REJECTED"]
       ELSE IF req[p].dto.type = "MARKET"
       THEN [Idle EXCEPT !.op = "create", !.oid = Len(orders) + 1,
                         !.pc = "exec_load"]
       ELSE [Idle EXCEPT !.op = "create", !.pc = "done",
                         !.result = req[p].dto.status]]
  /\ UNCHANGED <<marketPrice, overlapped>>

\* ------------------------------------------------------- executeOrder
\* Variant: the loop of processPendingOrders ends with the order at hand.
afterThrow_batchStops(r, e) ==
  IF r.op = "batch"
  THEN [r EXCEPT !.pc = "done", !.loaded = "none", !.outcome = "none"]
  ELSE [Idle EXCEPT !.op = r.op, !.pc = "done", !.err = e]

\* After executeOrder threw: createOrder and processOrderById pass the error
\* on; the loop of processPendingOrders logs it and takes the next order.
afterThrow(r, e) ==
  IF r.op = "batch"
  THEN IF r.queue = <<>>
       THEN [r EXCEPT !.pc = "done", !.loaded = "none", !.outcome = "none"]
       ELSE [r EXCEPT !.pc = "exec_load", !.oid = Head(r.queue),
                      !.queue = Tail(r.queue), !.loaded = "none",
                      !.outcome = "none"]
  ELSE [Idle EXCEPT !.op = r.op, !.pc = "done", !.err = e]

\* Variant: executeOrder without the status check of lines 29-33.
loadForExecution_noStatusCheck(os, r) ==
  IF r.oid \notin DOMAIN os
  THEN afterThrow(r, "TypeError")
  ELSE IF os[r.oid].type = "LIMIT"
  THEN [r EXCEPT !.loaded = "NEW", !.pc = "exec_validate"]
  ELSE [r EXCEPT !.loaded = "NEW", !.pc = "exec_save", !.outcome = "FILLED"]

\* Lines 21-33: findById and the status check, for the request r whose
\* order is r.oid.  A MARKET order needs no further read before the save.
loadForExecution(os, r) ==
  IF r.oid \notin DOMAIN os
  THEN afterThrow(r, "TypeError")
  ELSE IF os[r.oid].status # "NEW"
  THEN afterThrow(r, "NotProcessable")
  ELSE IF os[r.oid].type = "LIMIT"
  THEN [r EXCEPT !.loaded = "NEW", !.pc = "exec_validate"]
  ELSE [r EXCEPT !.loaded = "NEW", !.pc = "exec_save", !.outcome = "FILLED"]

\* executeOrder called by createOrder (line 111) or by the loop of
\* processPendingOrders (line 287).
executeOrderLoad(p) ==
  /\ req[p].pc = "exec_load"
  /\ req' = [req EXCEPT ![p] = loadForExecution(orders, @)]
  /\ UNCHANGED <<orders, marketPrice, overlapped>>

\* Lines 38-41: the re-validation of a LIMIT order (a getPortfolio read).
executeOrderValidate(p) ==
  /\ req[p].pc = "exec_validate"
  /\ req' = [req EXCEPT ![p] =
       [@ EXCEPT !.pc = "exec_save",
          !.outcome = IF validateOrderAtExecutionExcludingCurrent(
                           orders, orders[req[p].oid])
                      THEN "FILLED" ELSE "REJECTED"]]
  /\ UNCHANGED <<orders, marketPrice, overlapped>>

\* Variant: the catch block rethrows without saving REJECTED.
executeOrderSave_catchDoesNotSave(p) ==
  /\ req[p].pc = "exec_save"
  /\ orders' = IF req[p].outcome = "REJECTED" THEN orders
              ELSE [orders EXCEPT ![req[p].oid].status = req[p].outcome]
  /\ req' = [req EXCEPT ![p] =
       IF req[p].outcome = "REJECTED" \/ req[p].op = "batch"
       THEN afterThrow(@, "ExecutionError")
       ELSE [@ EXCEPT !.pc = "reload"]]
  /\ UNCHANGED <<marketPrice, overlapped>>

\* Variant: a fill stores the current market price in the order.
executeOrderSave_fillsAtMarket(p) ==
  /\ req[p].pc = "exec_save"
  /\ orders' = [orders EXCEPT
       ![req[p].oid].status = req[p].outcome,
       ![req[p].oid].price =
         IF req[p].outcome = "FILLED"
         THEN marketPrice[orders[req[p].oid].instrumentId] ELSE @]
  /\ req' = [req EXCEPT ![p] =
       IF req[p].outcome = "REJECTED" \/ req[p].op = "batch"
       THEN afterThrow(@, "ExecutionError")
       ELSE [@ EXCEPT !.pc = "reload"]]
  /\ UNCHANGED <<marketPrice, overlapped>>

\* Lines 43-44 (FILLED) and 54-56 (REJECTED, then the error is rethrown).
\* The loop of processPendingOrders only collects the DTO that getOrderById
\* returns, so it goes on to its next order.
executeOrderSave(p) ==
  /\ req[p].pc = "exec_save"
  /\ orders' = [orders EXCEPT ![req[p].oid].status = req[p].outcome]
  /\ req' = [req EXCEPT ![p] =
       IF req[p].outcome = "REJECTED" \/ req[p].op = "batch"
       THEN afterThrow(@, "ExecutionError")
       ELSE [@ EXCEPT !.pc = "reload"]]
  /\ UNCHANGED <<marketPrice, overlapped>>

\* getOrderById after executeOrder or after the cancel: the returned DTO.
getOrderById(p) ==
  /\ req[p].pc = "reload"
  /\ req' = [req EXCEPT ![p] =
       [Idle EXCEPT !.op = req[p].op, !.pc = "done",
                    !.result = orders[req[p].oid].status]]
  /\ UNCHANGED <<orders, marketPrice, overlapped>>

\* ------------------------------------------------------- processOrderById
\* Lines 259-268: executeOrder on the given id, then getOrderById.
processOrderById(p, orderId) ==
  /\ req[p].op = "idle"
  /\ req' = [req EXCEPT ![p] =
       loadForExecution(orders,
         [Idle EXCEPT !.op = "process", !.pc = "exec_load", !.oid = orderId])]
  /\ overlapped' = (overlapped \/ OthersInFlight(p))
  /\ UNCHANGED <<orders, marketPrice>>

\* ------------------------------------------------------- processPendingOrders
\* find({status: NEW}, order: datetime ASC, take: limit)
pendingOrderIds(os, limit) ==
  LET ids == SelectSeq([i \in 1..Len(os) |-> i],
                       LAMBDA i : os[i].status = "NEW")
  IN SubSeq(ids, 1, IF Len(ids) < limit THEN Len(ids) ELSE limit)

processPendingOrders(p, limit) ==
  /\ req[p].op = "idle"
  /\ LET pendingOrders == pendingOrderIds(orders, limit)
     IN req' = [req EXCEPT ![p] =
          IF pendingOrders = <<>>
          THEN [Idle EXCEPT !.op = "batch", !.pc = "done"]
          ELSE [Idle EXCEPT !.op = "batch", !.pc = "exec_load",
                            !.oid = Head(pendingOrders),
                            !.queue = Tail(pendingOrders)]]
  /\ overlapped' = (overlapped \/ OthersInFlight(p))
  /\ UNCHANGED <<orders, marketPrice>>

\* ------------------------------------------------------- OrderService.cancelOrder
\* Lines 129-146: findOne and the three checks.
cancelOrderLoad(p, orderId, userId) ==
  /\ req[p].op = "idle"
  /\ req' = [req EXCEPT ![p] =
       IF orderId \notin DOMAIN orders
       THEN [Idle EXCEPT !.op = "cancel", !.pc = "done", !.err = "NotFound"]
       ELSE IF orders[orderId].userId # userId
       THEN [Idle EXCEPT !.op = "cancel", !.pc = "done",
                         !.err = "Unauthorized"]
       ELSE IF orders[orderId].status # "NEW"
       THEN [Idle EXCEPT !.op = "cancel", !.pc = "done",
                         !.err = "ValidationError"]
       ELSE [Idle EXCEPT !.op = "cancel", !.pc = "cancel_save",
                         !.oid = orderId, !.loaded = "NEW"]]
  /\ overlapped' = (overlapped \/ OthersInFlight(p))
  /\ UNCHANGED <<orders, marketPrice>>

\* Variant: the cancel returns without writing the status.
cancelOrderSave_doesNotWrite(p) ==
  /\ req[p].pc = "cancel_save"
  /\ req' = [req EXCEPT ![p] =
       [Idle EXCEPT !.op = "cancel", !.pc = "reload", !.oid = req[p].oid]]
  /\ UNCHANGED <<orders, marketPrice, overlapped>>

\* Lines 155-156: the save of the loaded entity with status CANCELLED.
cancelOrderSave(p) ==
  /\ req[p].pc = "cancel_save"
  /\ orders' = [orders EXCEPT ![req[p].oid].status = "CANCELLED"]
  /\ req' = [req EXCEPT ![p] =
       [Idle EXCEPT !.op = "cancel", !.pc = "reload", !.oid = req[p].oid]]
  /\ UNCHANGED <<marketPrice, overlapped>>

\* ------------------------------------------------------- CashController
\* The instrument of the model that stands for ARS (ARS_INSTRUMENT_ID).
ARS_INSTRUMENT_ID == CHOOSE i \in InstrumentIds : TRUE

\* deposit, lines 29-83: the checks of the body, then createOrder with
\* side CASH_IN, size = amount, type MARKET and price 1.
deposit(p, userId, amount) ==
  /\ req[p].op = "idle"
  /\ HasRoom
  /\ amount > 0
  /\ req' = [req EXCEPT ![p] =
       createOrderStart(userId, ARS_INSTRUMENT_ID, "CASH_IN", "MARKET",
                        amount, 0, 1)]
  /\ overlapped' = (overlapped \/ OthersInFlight(p))
  /\ UNCHANGED <<orders, marketPrice>>

\* withdraw, lines 89-123: getPortfolio and the comparison of the available
\* cash with the amount.
withdrawCheck(p, userId, amount) ==
  /\ req[p].op = "idle"
  /\ HasRoom
  /\ amount > 0
  /\ LET portfolio == getPortfolio(orders, userId)
     IN req' = [req EXCEPT ![p] =
          IF portfolio.thrown
          THEN [Idle EXCEPT !.op = "withdraw", !.pc = "done",
                            !.err = "NotFound"]
          ELSE IF portfolio.cashBalance.available < amount
          THEN [Idle EXCEPT !.op = "withdraw", !.pc = "done",
                            !.err = "InsufficientFunds"]
          ELSE [Idle EXCEPT !.op = "withdraw", !.pc = "withdraw_create",
                  !.dto = [NoDto EXCEPT !.userId = userId, !.size = amount]]]
  /\ overlapped' = (overlapped \/ OthersInFlight(p))
  /\ UNCHANGED <<orders, marketPrice>>

\* withdraw, lines 125-135: createOrder with side CASH_OUT, size = amount,
\* type MARKET and price 1.
withdrawCreateOrder(p) ==
  /\ req[p].op = "withdraw" /\ req[p].pc = "withdraw_create"
  /\ req' = [req EXCEPT ![p] =
       createOrderStart(req[p].dto.userId, ARS_INSTRUMENT_ID, "CASH_OUT",
                        "MARKET", req[p].dto.size, 0, 1)]
  /\ UNCHANGED <<orders, marketPrice, overlapped>>

\* orderRepository.create for a request admitted through POST /orders with
\* any side and any user id.  The schema of the database is not part of the
\* repository: with a foreign key on the user (fk) the insert of a row of an
\* unknown user fails, without one it succeeds.
createOrderSave(p, fk) ==
  IF req[p].dto.userId \notin Users /\ fk
  THEN /\ req[p].op = "create" /\ req[p].pc = "persist"
       /\ req' = [req EXCEPT ![p] =
            [Idle EXCEPT !.op = "create", !.pc = "done",
                         !.err = "QueryFailedError"]]
       /\ UNCHANGED <<orders, marketPrice, overlapped>>
  ELSE createOrderPersist(p)

\* The response has been sent: the slot is free again.
respond(p) ==
  /\ req[p].pc = "done"
  /\ req' = [req EXCEPT ![p] = Idle]
  /\ UNCHANGED <<orders, marketPrice, overlapped>>

Next ==
  \/ \E p \in Procs, userId \in Users, instrumentId \in 1..(NInstruments + 1),
        side \in TradingSide, type \in OrderType, size \in 0..MaxSize,
        amount \in 0..MaxAmount, price \in 0..MaxLimitPrice :
       createOrderAdmit(p, userId, instrumentId, side, type, size, amount, price)
  \/ \E p \in Procs : createOrderPersist(p)
  \/ \E p \in Procs : executeOrderLoad(p)
  \/ \E p \in Procs : executeOrderValidate(p)
  \/ \E p \in Procs : executeOrderSave(p)
  \/ \E p \in Procs : getOrderById(p)
  \/ \E p \in Procs, orderId \in 1..MaxOrders : processOrderById(p, orderId)
  \/ \E p \in Procs, limit \in 1..MaxLimit : processPendingOrders(p, limit)
  \/ \E p \in Procs, orderId \in 1..MaxOrders, userId \in UserIds :
       cancelOrderLoad(p, orderId, userId)
  \/ \E p \in Procs : cancelOrderSave(p)
  \/ \E p \in Procs : respond(p)

Spec == Init /\ [][Next]_vars

\* The service with the cash endpoints and with orders of every side and of
\* any user id sent through POST /orders, one request at a time.
CashNext ==
  \/ \E p \in CashProcs, userId \in UserIds, instrumentId \in InstrumentIds,
        side \in OrderSide, type \in OrderType, size \in 0..MaxSize,
        amount \in 0..MaxCashAmount, price \in 0..MaxCashLimitPrice :
       createOrderAdmit(p, userId, instrumentId, side, type, size, amount, price)
  \/ \E p \in CashProcs, fk \in BOOLEAN : createOrderSave(p, fk)
  \/ \E p \in CashProcs : executeOrderLoad(p)
  \/ \E p \in CashProcs : executeOrderValidate(p)
  \/ \E p \in CashProcs : executeOrderSave(p)
  \/ \E p \in CashProcs : getOrderById(p)
  \/ \E p \in CashProcs, orderId \in 1..MaxOrders : processOrderById(p, orderId)
  \/ \E p \in CashProcs, orderId \in 1..MaxOrders, userId \in UserIds :
       cancelOrderLoad(p, orderId, userId)
  \/ \E p \in CashProcs : cancelOrderSave(p)
  \/ \E p \in CashProcs, userId \in UserIds, amount \in 1..MaxCashAmount :
       deposit(p, userId, amount)
  \/ \E p \in CashProcs, userId \in UserIds, amount \in 1..MaxCashAmount :
       withdrawCheck(p, userId, amount)
  \/ \E p \in CashProcs : withdrawCreateOrder(p)
  \/ \E p \in CashProcs : respond(p)

CashSpec == Init /\ [][CashNext]_vars

\* The same service started on an empty orders table.
EmptyInit ==
  /\ orders = <<>>
  /\ marketPrice \in [InstrumentIds -> {0, MaxPrice}]
  /\ req = [p \in Procs |-> Idle]
  /\ overlapped = FALSE

\* createOrder while the table has fewer than MaxEmptyOrders rows.
createOrderOnSmallTable(p, userId, instrumentId, side, type, size, amount, price) ==
  /\ Len(orders) < MaxEmptyOrders
  /\ createOrderAdmit(p, userId, instrumentId, side, type, size, amount, price)

EmptyNext ==
  \/ \E p \in CashProcs, userId \in UserIds, instrumentId \in InstrumentIds,
        side \in OrderSide, type \in OrderType, size \in 0..MaxSize,
        amount \in 0..MaxCashAmount, price \in 0..MaxCashLimitPrice :
       createOrderOnSmallTable(p, userId, instrumentId, side, type, size,
                               amount, price)
  \/ \E p \in CashProcs, fk \in BOOLEAN : createOrderSave(p, fk)
  \/ \E p \in CashProcs : executeOrderLoad(p)
  \/ \E p \in CashProcs : executeOrderValidate(p)
  \/ \E p \in CashProcs : executeOrderSave(p)
  \/ \E p \in CashProcs : getOrderById(p)
  \/ \E p \in CashProcs, orderId \in 1..MaxOrders : processOrderById(p, orderId)
  \/ \E p \in CashProcs, orderId \in 1..MaxOrders, userId \in UserIds :
       cancelOrderLoad(p, orderId, userId)
  \/ \E p \in CashProcs : cancelOrderSave(p)
  \/ \E p \in CashProcs, userId \in UserIds, amount \in 1..MaxCashAmount :
       deposit(p, userId, amount)
  \/ \E p \in CashProcs, userId \in UserIds, amount \in 1..MaxCashAmount :
       withdrawCheck(p, userId, amount)
  \/ \E p \in CashProcs : withdrawCreateOrder(p)
  \/ \E p \in CashProcs : respond(p)

EmptySpec == EmptyInit /\ [][EmptyNext]_vars

\* ------------------------------------------------------- position replay
\* The position calculator on any ledger: the table holds any list of up to
\* MaxReplayLen FILLED BUY/SELL orders of one user and one instrument, in
\* datetime order, and the only request is the read of the portfolio.
FilledRows ==
  {SeedRow(side, "LIMIT", size, price, "FILLED") :
     side \in TradingSide, size \in 1..MaxReplaySize,
     price \in 1..MaxReplayPrice}

FilledLists == UNION {[1..n -> FilledRows] : n \in 0..MaxReplayLen}

ReplayInit ==
  /\ orders \in FilledLists
  /\ marketPrice \in [InstrumentIds -> {0, MaxPrice}]
  /\ req = [p \in Procs |-> Idle]
  /\ overlapped = FALSE

\* PortfolioService.getPortfolio, for the positions: getAllUserOrders, then
\* calculatePositions, whose calculatePositionData result per instrument is
\* the result kept here.  dto.userId keeps the user the request is for.
getPortfolioPositions(p, userId) ==
  /\ req[p].op = "idle"
  /\ req' = [req EXCEPT ![p] =
       [Idle EXCEPT !.op = "portfolio", !.pc = "done",
                    !.dto = [NoDto EXCEPT !.userId = userId],
                    !.result = [i \in InstrumentIds |->
                                  valuationOf(getAllUserOrders(orders, userId),
                                              i)]]]
  /\ UNCHANGED <<orders, marketPrice, overlapped>>

ReplayNext ==
  \/ \E p \in CashProcs, userId \in Users : getPortfolioPositions(p, userId)
  \/ \E p \in CashProcs : respond(p)

ReplaySpec == ReplayInit /\ [][ReplayNext]_vars

\* ------------------------------------------------------- shared table
\* The orders table as several account holders share it: it starts with any
\* list of up to MaxSharedLen FILLED and NEW orders of the users of this
\* model and of one more holder (id NUsers + 1), whose orders are in the
\* table but who sends no request here.  The requests are createOrder (a
\* MARKET order is executed without a second validation) and the read of the
\* portfolio.
SharedRows ==
  {[userId |-> u, instrumentId |-> i, side |-> side, type |-> "LIMIT",
    size |-> size, price |-> 1, status |-> status] :
     u \in UserIds, i \in InstrumentIds, side \in {"CASH_IN", "BUY", "SELL"},
     size \in 1..MaxSize, status \in {"FILLED", "NEW"}}

SharedTables == UNION {[1..n -> SharedRows] : n \in 0..MaxSharedLen}

SharedInit ==
  /\ orders \in SharedTables
  /\ marketPrice \in [InstrumentIds -> {0, MaxPrice}]
  /\ req = [p \in Procs |-> Idle]
  /\ overlapped = FALSE

\* createOrder while the table has fewer than MaxSharedOrders rows.
createOrderOnSharedTable(p, userId, instrumentId, side, type, size, amount, price) ==
  /\ Len(orders) < MaxSharedOrders
  /\ createOrderAdmit(p, userId, instrumentId, side, type, size, amount, price)

\* PortfolioService.getPortfolio as GET /portfolio/:userId answers it: the
\* cash balance, the positions and the total value (NotFound for an unknown
\* user).  dto.userId keeps the user the request is for.
getPortfolioRequest(p, userId) ==
  /\ req[p].op = "idle"
  /\ LET portfolio == getPortfolio(orders, userId)
     IN req' = [req EXCEPT ![p] =
          IF portfolio.thrown
          THEN [Idle EXCEPT !.op = "portfolio", !.pc = "done",
                            !.dto = [NoDto EXCEPT !.userId = userId],
                            !.err = "NotFound"]
          ELSE [Idle EXCEPT !.op = "portfolio", !.pc = "done",
                            !.dto = [NoDto EXCEPT !.userId = userId],
                            !.result =
                              [cashBalance |-> portfolio.cashBalance,
                               positions |-> portfolio.positions,
                               totalValue |-> totalValue(orders, userId)]]]
  /\ UNCHANGED <<orders, marketPrice, overlapped>>

SharedNext ==
  \/ \E p \in CashProcs, userId \in Users, instrumentId \in InstrumentIds,
        side \in TradingSide, type \in OrderType, size \in 0..MaxSize,
        amount \in 0..MaxAmount, price \in 0..MaxLimitPrice :
       createOrderOnSharedTable(p, userId, instrumentId, side, type, size,
                                amount, price)
  \/ \E p \in CashProcs : createOrderPersist(p)
  \/ \E p \in CashProcs : executeOrderLoad(p)
  \/ \E p \in CashProcs : executeOrderSave(p)
  \/ \E p \in CashProcs : getOrderById(p)
  \/ \E p \in CashProcs, userId \in UserIds : getPortfolioRequest(p, userId)
  \/ \E p \in CashProcs : respond(p)

SharedSpec == SharedInit /\ [][SharedNext]_vars

\* ------------------------------------------------------- batch runs
\* The batch endpoint called again and again while no order is created: the
\* table holds the seed and up to MaxPending NEW LIMIT orders, which reserve
\* more than the account has when their requests were admitted side by side.
PendingRows ==
  {SeedRow(side, "LIMIT", size, 1, "NEW") :
     side \in TradingSide, size \in 1..MaxSize}

PendingTables ==
  {SeedOrders \o pending :
     pending \in UNION {[1..n -> PendingRows] : n \in 1..MaxPending}}

BatchInit ==
  /\ orders \in PendingTables
  /\ marketPrice \in [InstrumentIds -> {0, MaxPrice}]
  /\ req = [p \in Procs |-> Idle]
  /\ overlapped = FALSE

\* The steps of the requests of one caller of the batch endpoint.
BatchStep(p) ==
  \/ \E limit \in 1..MaxLimit : processPendingOrders(p, limit)
  \/ executeOrderLoad(p)
  \/ executeOrderValidate(p)
  \/ executeOrderSave(p)
  \/ respond(p)

BatchNext == \E p \in CashProcs : BatchStep(p)

\* The caller calls again after every answer, and the event loop runs every
\* continuation of a request that is ready.
BatchSpec ==
  BatchInit /\ [][BatchNext]_vars /\ \A p \in CashProcs : WF_vars(BatchStep(p))

\* ------------------------------------------------------------------ properties
Terminal == {"FILLED", "REJECTED", "CANCELLED"}

\* p takes a step.
Steps(p) == req'[p] # req[p]

\* The ledger read row by row: cash moved by the user's FILLED orders, the
\* notional of the user's NEW BUY orders, the quantity replayed from the
\* FILLED BUY/SELL orders of one instrument over the first n rows, and the
\* sizes of the NEW SELL orders.
ledgerCashTotal(os, u) ==
  SetSum([i \in DOMAIN os |->
            IF os[i].userId = u /\ os[i].status = "FILLED"
            THEN CASE os[i].side = "CASH_IN" -> os[i].size
                   [] os[i].side = "CASH_OUT" -> 0 - os[i].size
                   [] os[i].side = "BUY" -> 0 - os[i].size * os[i].price
                   [] os[i].side = "SELL" -> os[i].size * os[i].price
            ELSE 0], DOMAIN os)

ledgerCashReserved(os, u) ==
  SetSum([i \in DOMAIN os |->
            IF os[i].userId = u /\ os[i].status = "NEW" /\ os[i].side = "BUY"
            THEN os[i].size * os[i].price ELSE 0], DOMAIN os)

RECURSIVE ledgerQuantity(_, _, _, _)
ledgerQuantity(os, u, inst, n) ==
  IF n = 0 THEN 0
  ELSE LET q == ledgerQuantity(os, u, inst, n - 1)
           o == os[n]
       IN IF o.userId = u /\ o.instrumentId = inst /\ o.status = "FILLED"
          THEN IF o.side = "BUY" THEN q + o.size
               ELSE IF o.side = "SELL" /\ q > 0 THEN q - o.size
               ELSE q
          ELSE q

ledgerSharesReserved(os, u, inst) ==
  SetSum([i \in DOMAIN os |->
            IF /\ os[i].userId = u /\ os[i].instrumentId = inst
               /\ os[i].status = "NEW" /\ os[i].side = "SELL"
            THEN os[i].size ELSE 0], DOMAIN os)

\* p's createOrder passes validation in this step and decides the status.
Admits(p) ==
  req[p].op = "idle" /\ req'[p].op = "create" /\ req'[p].pc = "persist"

\* p's createOrder writes its order in this step.
Persists(p) == req[p].op = "create" /\ req[p].pc = "persist" /\ Steps(p)

\* C1: createOrder for a BUY or SELL persists one order and returns it with
\* status REJECTED when admission failed, otherwise FILLED for a MARKET order
\* and NEW for a LIMIT order; a MARKET order is not NEW when createOrder
\* returns, and createOrder never executes a LIMIT order.
C1_CreateOrderStatus ==
  [][\A p \in Procs :
       /\ Persists(p) =>
            /\ Len(orders') = Len(orders) + 1
            /\ orders'[Len(orders')].status = req[p].dto.status
            /\ req'[p].pc = "done" =>
                 /\ req'[p].err = "none"
                 /\ req'[p].result = req[p].dto.status
                 /\ \/ req[p].dto.status = "REJECTED"
                    \/ req[p].dto.status = "NEW" /\ req[p].dto.type = "LIMIT"
            /\ req'[p].pc # "done" =>
                 req[p].dto.status = "NEW" /\ req[p].dto.type = "MARKET"
       /\ (req[p].op = "create" /\ req[p].oid # 0 /\ Steps(p)) =>
            /\ orders[req[p].oid].type = "MARKET"
            /\ req'[p].pc = "done" =>
                 /\ req'[p].err = "none"
                 /\ req'[p].result = "FILLED"
                 /\ orders'[req[p].oid].status = "FILLED"]_vars

\* C2: a BUY is admitted (NEW) exactly when executionSize * executionPrice is
\* at most the user's available cash at the moment of the check (cash of the
\* FILLED orders minus the notional of the NEW BUY orders), is REJECTED
\* otherwise, and is persisted with the status decided.
C2_BuyAdmission ==
  [][\A p \in Procs :
       /\ (Admits(p) /\ req'[p].dto.side = "BUY") =>
            LET dto == req'[p].dto
                available == ledgerCashTotal(orders, dto.userId)
                               - ledgerCashReserved(orders, dto.userId)
            IN /\ dto.status \in {"NEW", "REJECTED"}
               /\ dto.status = "NEW" <=> dto.size * dto.price <= available
       /\ (Persists(p) /\ req[p].dto.side = "BUY") =>
            orders' = Append(orders, req[p].dto)]_vars

\* C2 witness: a BUY is about to be persisted REJECTED while a NEW BUY of the
\* same user holds a reservation.
C2_Witness ==
  \E p \in Procs :
    /\ req[p].pc = "persist" /\ req[p].dto.side = "BUY"
    /\ req[p].dto.status = "REJECTED"
    /\ ledgerCashReserved(orders, req[p].dto.userId) > 0
    /\ req[p].dto.size * req[p].dto.price
         <= ledgerCashTotal(orders, req[p].dto.userId)

\* C3: a SELL is admitted (NEW) exactly when executionSize is at most the
\* replayed quantity of the instrument minus the sizes of the user's NEW SELL
\* orders for it, is REJECTED otherwise (a user without a position included),
\* and is persisted with the status decided.
C3_SellAdmission ==
  [][\A p \in Procs :
       /\ (Admits(p) /\ req'[p].dto.side = "SELL") =>
            LET dto == req'[p].dto
                available ==
                  ledgerQuantity(orders, dto.userId, dto.instrumentId,
                                 Len(orders))
                    - ledgerSharesReserved(orders, dto.userId,
                                           dto.instrumentId)
            IN /\ dto.status \in {"NEW", "REJECTED"}
               /\ dto.status = "NEW" <=> dto.size <= available
       /\ (Persists(p) /\ req[p].dto.side = "SELL") =>
            orders' = Append(orders, req[p].dto)]_vars

\* C3 witness: a SELL is about to be persisted REJECTED although the replayed
\* quantity covers it, because NEW SELL orders reserve the shares.
C3_Witness ==
  \E p \in Procs :
    /\ req[p].pc = "persist" /\ req[p].dto.side = "SELL"
    /\ req[p].dto.status = "REJECTED"
    /\ ledgerSharesReserved(orders, req[p].dto.userId,
                            req[p].dto.instrumentId) > 0
    /\ req[p].dto.size
         <= ledgerQuantity(orders, req[p].dto.userId,
                           req[p].dto.instrumentId, Len(orders))

\* The positions getPortfolio reports for user u.
positionsOf(u) == getPortfolio(orders, u).positions

C5_BalanceRelation ==
  \A u \in Users :
    LET portfolio == getPortfolio(orders, u)
    IN /\ portfolio.cashBalance.available
            = portfolio.cashBalance.total - portfolio.cashBalance.reserved
       /\ portfolio.cashBalance.reserved >= 0
       /\ portfolio.cashBalance.reserved = ledgerCashReserved(orders, u)
       /\ \A i \in DOMAIN portfolio.positions :
            /\ portfolio.positions[i].available
                 = portfolio.positions[i].total
                     - portfolio.positions[i].reserved
            /\ portfolio.positions[i].reserved
                 = ledgerSharesReserved(orders, u, i)

\* C5 witness: a NEW BUY reserves cash and a NEW SELL reserves shares.
C5_Witness ==
  \E u \in Users :
    /\ getPortfolio(orders, u).cashBalance.reserved > 0
    /\ \E i \in DOMAIN positionsOf(u) : positionsOf(u)[i].reserved > 0

\* C6: once the persisted status of an order is FILLED, REJECTED or
\* CANCELLED it never changes again, under every interleaving.
C6_TerminalStatusFinal ==
  [][\A i \in DOMAIN orders :
       orders[i].status \in Terminal =>
         orders'[i].status = orders[i].status]_vars

\* C7: cancelOrder by the owner, processOrder, or the execution step of a
\* batch, on an order whose status is FILLED, REJECTED or CANCELLED fails
\* with an error and writes nothing.
C7_TerminalOrderRefused ==
  [][\A p \in Procs :
       /\ \A orderId \in DOMAIN orders :
            (/\ orders[orderId].status \in Terminal
             /\ \/ processOrderById(p, orderId)
                \/ cancelOrderLoad(p, orderId, orders[orderId].userId)) =>
              /\ req'[p].pc = "done"
              /\ req'[p].err \in {"NotProcessable", "ValidationError"}
              /\ orders' = orders
       /\ (/\ req[p].pc = "exec_load" /\ Steps(p)
           /\ orders[req[p].oid].status \in Terminal) =>
            /\ req'[p].pc \notin {"exec_validate", "exec_save"}
            /\ orders' = orders]_vars

\* C7 witness: a cancel by the owner has just been refused for the state of
\* the order, and every order is terminal, one of them CANCELLED.
C7_Witness ==
  /\ \E p \in Procs :
       /\ req[p].op = "cancel" /\ req[p].pc = "done"
       /\ req[p].err = "ValidationError"
  /\ \A i \in DOMAIN orders : orders[i].status \in Terminal
  /\ \E i \in DOMAIN orders : orders[i].status = "CANCELLED"

\* C8: an execution that found its order NEW ends, with a result or with an
\* error, by leaving the persisted status FILLED or REJECTED, and no order
\* goes back to NEW.
C8_ExecutionLeavesTerminal ==
  [][/\ \A p \in Procs :
          (/\ req[p].pc \in {"exec_validate", "exec_save"}
           /\ req[p].loaded = "NEW" /\ Steps(p)) =>
            \/ req'[p].pc = "exec_save" /\ req'[p].oid = req[p].oid
                 /\ req[p].pc = "exec_validate"
            \/ orders'[req[p].oid].status \in {"FILLED", "REJECTED"}
     /\ \A i \in DOMAIN orders :
          orders[i].status # "NEW" => orders'[i].status # "NEW"]_vars

\* C8 witness: processOrder has saved its order FILLED and is about to
\* return it.
C8_Witness ==
  \E p \in Procs :
    /\ req[p].op = "process" /\ req[p].pc = "reload"
    /\ orders[req[p].oid].type = "LIMIT"
    /\ orders[req[p].oid].status = "FILLED"

\* C9: processOrder on a NEW LIMIT order whose re-validation fails persists
\* REJECTED and goes on to return the order, without an error.
C9_ProcessReturnsRejected ==
  [][\A p \in Procs :
       (/\ req[p].op = "process" /\ req[p].pc = "exec_save"
        /\ req[p].outcome = "REJECTED" /\ Steps(p)) =>
         /\ orders'[req[p].oid].status = "REJECTED"
         /\ req'[p].err = "none"
         /\ req'[p].pc \in {"reload", "done"}]_vars

\* C10: cancelOrder turns an order CANCELLED only when the order is NEW and
\* the caller is its owner; a call by anyone else ends with Unauthorized and
\* writes nothing, whatever the status.
C10_CancelOnlyNewByOwner ==
  [][/\ \A p \in Procs : \A orderId \in DOMAIN orders : \A userId \in UserIds :
          cancelOrderLoad(p, orderId, userId) =>
            /\ userId # orders[orderId].userId =>
                 /\ req'[p].pc = "done" /\ req'[p].err = "Unauthorized"
                 /\ orders' = orders
            /\ req'[p].pc # "done" =>
                 /\ orders[orderId].status = "NEW"
                 /\ userId = orders[orderId].userId
                 /\ req'[p].pc = "cancel_save" /\ req'[p].oid = orderId
     /\ \A i \in DOMAIN orders :
          (orders'[i].status = "CANCELLED" /\ orders[i].status # "CANCELLED")
            => /\ orders[i].status = "NEW"
               /\ \E p \in Procs :
                    /\ req[p].op = "cancel" /\ req[p].pc = "cancel_save"
                    /\ req[p].oid = i /\ Steps(p)]_vars

\* Available cash and available quantity as the next admission check of user
\* u computes them over the table os.
availableCashOf(os, u) ==
  calculateCashBalance(getAllUserOrders(os, u)).available

totalCashOf(os, u) == calculateCashBalance(getAllUserOrders(os, u)).total

availableSharesOf(os, u, i) == positionOf(getAllUserOrders(os, u), i).available

totalSharesOf(os, u, i) == positionOf(getAllUserOrders(os, u), i).total

\* C11: when cancelOrder writes CANCELLED over a NEW LIMIT order, the cash
\* total and the position total stay as they were, the available cash (BUY)
\* or available quantity (SELL) of the owner rises by exactly the notional or
\* the size of the order, and every order the admission check refused only
\* for that reservation is admitted by the check that follows.
C11_CancelReleasesReservation ==
  [][\A p \in Procs :
       (/\ req[p].pc = "cancel_save" /\ Steps(p)
        /\ orders[req[p].oid].status = "NEW"
        /\ orders[req[p].oid].type = "LIMIT") =>
         LET o == orders[req[p].oid]
             u == o.userId
             i == o.instrumentId
         IN /\ orders'[req[p].oid].status = "CANCELLED"
            /\ totalCashOf(orders', u) = totalCashOf(orders, u)
            /\ totalSharesOf(orders', u, i) = totalSharesOf(orders, u, i)
            /\ o.side = "BUY" =>
                 /\ availableCashOf(orders', u)
                      = availableCashOf(orders, u) + o.size * o.price
                 /\ availableSharesOf(orders', u, i)
                      = availableSharesOf(orders, u, i)
                 /\ \A size \in 1..MaxSize, price \in 1..MaxPrice :
                      (/\ determineInitialStatus(orders, u, i, "BUY", size,
                                                 price) = "REJECTED"
                       /\ size * price
                            <= availableCashOf(orders, u) + o.size * o.price)
                        => determineInitialStatus(orders', u, i, "BUY", size,
                                                  price) = "NEW"
            /\ o.side = "SELL" =>
                 /\ availableSharesOf(orders', u, i)
                      = availableSharesOf(orders, u, i) + o.size
                 /\ availableCashOf(orders', u) = availableCashOf(orders, u)
                 /\ \A size \in 1..MaxSize :
                      (/\ determineInitialStatus(orders, u, i, "SELL", size,
                                                 MaxPrice) = "REJECTED"
                       /\ totalSharesOf(orders, u, i) > 0
                       /\ size <= availableSharesOf(orders, u, i) + o.size)
                        => determineInitialStatus(orders', u, i, "SELL", size,
                                                  MaxPrice) = "NEW"]_vars

\* C11 witness: a cancel has just written CANCELLED over a LIMIT order, and a
\* BUY that sits REJECTED in the table would now be admitted.
C11_Witness ==
  \E p \in Procs :
    /\ req[p].op = "cancel" /\ req[p].pc = "reload"
    /\ orders[req[p].oid].status = "CANCELLED"
    /\ orders[req[p].oid].type = "LIMIT"
    /\ \E j \in DOMAIN orders :
         /\ orders[j].status = "REJECTED" /\ orders[j].side = "BUY"
         /\ orders[j].side = orders[req[p].oid].side
         /\ determineInitialStatus(orders, orders[j].userId,
              orders[j].instrumentId, "BUY", orders[j].size,
              orders[j].price) = "NEW"

FailsBeforeAdmission(instrumentId, type, size, amount, price) ==
  \/ instrumentId \notin InstrumentIds
  \/ type = "LIMIT" /\ price = 0
  \/ type = "MARKET" /\ price # 0
  \/ marketPrice[instrumentId] = 0
  \/ size = 0 /\ amount < (IF type = "MARKET" THEN marketPrice[instrumentId]
                           ELSE price)

\* C16: a createOrder that fails before admission ends with an error and
\* leaves the table as it was; any other createOrder goes on to persist.
C16_PreAdmissionFailure ==
  [][\A p \in Procs :
       (req[p].op = "idle" /\ req'[p].op = "create") =>
         \A userId \in Users, instrumentId \in 1..(NInstruments + 1),
            side \in TradingSide, type \in OrderType, size \in 0..MaxSize,
            amount \in 0..MaxAmount, price \in 0..MaxLimitPrice :
           createOrderAdmit(p, userId, instrumentId, side, type, size,
                            amount, price) =>
             IF FailsBeforeAdmission(instrumentId, type, size, amount, price)
             THEN /\ req'[p].pc = "done"
                  /\ req'[p].err = "ValidationError"
                  /\ orders' = orders
             ELSE req'[p].pc = "persist" /\ req'[p].err = "none"]_vars

\* C16 witness: a createOrder has just failed before admission and nothing
\* but the seed rows has been written.
C16_Witness ==
  /\ \E p \in Procs :
       /\ req[p].op = "create" /\ req[p].pc = "done"
       /\ req[p].err = "ValidationError"
  /\ orders = SeedOrders

\* p's createOrder appends its row in this step.
Appends(p) == Persists(p) /\ Len(orders') = Len(orders) + 1

C14_DepositAccepted ==
  [][\A p \in Procs :
       /\ \A userId \in Users, amount \in 1..MaxCashAmount :
            deposit(p, userId, amount) =>
              /\ req'[p].pc = "persist" /\ req'[p].err = "none"
              /\ req'[p].dto.side = "CASH_IN"
              /\ req'[p].dto.userId = userId
              /\ req'[p].dto.size = amount
       /\ (/\ req[p].op = "create" /\ req[p].pc = "exec_save" /\ Steps(p)
           /\ orders[req[p].oid].side = "CASH_IN"
           /\ orders[req[p].oid].status = "NEW") =>
            /\ orders'[req[p].oid].status = "FILLED"
            /\ totalCashOf(orders', orders[req[p].oid].userId)
                 = totalCashOf(orders, orders[req[p].oid].userId)
                     + orders[req[p].oid].size]_vars

\* C15: createOrder for a user id that does not exist ends with an error
\* before any write: no such request is admitted and no row of an unknown
\* user is in the table.
C15_UnknownUserRefused ==
  [][/\ \A p \in Procs : Admits(p) => req'[p].dto.userId \in Users
     /\ \A i \in DOMAIN orders' : orders'[i].userId \in Users]_vars

\* A row of the table that this step wrote or changed.
Touched(i) == i \notin DOMAIN orders \/ orders'[i] # orders[i]

\* C17: the total cash of every user is the sum over the FILLED rows of the
\* user of + size (CASH_IN), - size (CASH_OUT), - size * price (BUY) and
\* + size * price (SELL); an admitted MARKET BUY lowers the available cash by
\* size * price when it is written and its fill moves that amount from
\* reserved to spent; a step that writes no FILLED status and changes no
\* FILLED row leaves every total as it was.
C17_CashTotalFromFilled ==
  [][/\ \A u \in UserIds :
          /\ totalCashOf(orders, u) = ledgerCashTotal(orders, u)
          /\ totalCashOf(orders', u) = ledgerCashTotal(orders', u)
     /\ \A p \in Procs :
          /\ (/\ Appends(p) /\ req[p].dto.side = "BUY"
              /\ req[p].dto.type = "MARKET" /\ req[p].dto.status = "NEW") =>
               /\ totalCashOf(orders', req[p].dto.userId)
                    = totalCashOf(orders, req[p].dto.userId)
               /\ availableCashOf(orders', req[p].dto.userId)
                    = availableCashOf(orders, req[p].dto.userId)
                        - req[p].dto.size * req[p].dto.price
          /\ (/\ req[p].pc = "exec_save" /\ Steps(p)
              /\ req[p].outcome = "FILLED"
              /\ orders[req[p].oid].side = "BUY"
              /\ orders[req[p].oid].status = "NEW") =>
               LET o == orders[req[p].oid]
               IN /\ totalCashOf(orders', o.userId)
                       = totalCashOf(orders, o.userId) - o.size * o.price
                  /\ availableCashOf(orders', o.userId)
                       = availableCashOf(orders, o.userId)
     /\ (\A i \in DOMAIN orders' :
           Touched(i) =>
             /\ orders'[i].status \in {"NEW", "REJECTED", "CANCELLED"}
             /\ i \in DOMAIN orders => orders[i].status # "FILLED")
          => \A u \in UserIds :
               totalCashOf(orders', u) = totalCashOf(orders, u)]_vars

\* C17 witness: a FILLED withdrawal and a FILLED MARKET BUY of the first
\* user follow the seed rows.
C17_Witness ==
  /\ Len(orders) = Len(SeedOrders) + 2
  /\ \E i, j \in DOMAIN orders :
       /\ orders[i].side = "CASH_OUT" /\ orders[i].status = "FILLED"
       /\ orders[j].side = "BUY" /\ orders[j].type = "MARKET"
       /\ orders[j].status = "FILLED"
       /\ orders[i].userId = 1 /\ orders[j].userId = 1
       /\ totalCashOf(orders, 1)
            = SeedCash - SeedShares - orders[i].size
                - orders[j].size * orders[j].price

\* C19: a createOrder given an amount persists the size s with
\* s * executionPrice <= amount < (s + 1) * executionPrice, a createOrder
\* given a size persists that size, and the row written carries the size
\* computed.
C19_SizeFromAmount ==
  [][\A p \in Procs :
       /\ Admits(p) =>
            \A userId \in UserIds, instrumentId \in InstrumentIds,
               side \in OrderSide, type \in OrderType, size \in 0..MaxSize,
               amount \in 0..MaxCashAmount, price \in 0..MaxCashLimitPrice :
              createOrderAdmit(p, userId, instrumentId, side, type, size,
                               amount, price) =>
                LET dto == req'[p].dto
                IN /\ dto.price = IF type = "MARKET"
                                  THEN marketPrice[instrumentId] ELSE price
                   /\ IF size # 0 THEN dto.size = size
                      ELSE /\ dto.size * dto.price <= amount
                           /\ amount < (dto.size + 1) * dto.price
       /\ Appends(p) =>
            /\ orders'[Len(orders')].size = req[p].dto.size
            /\ orders'[Len(orders')].price = req[p].dto.price]_vars

\* C19 witness: the request about to be written is what createOrder makes of
\* an amount that is not a multiple of the market price: the size times the
\* price is below the amount.
C19_Witness ==
  \E p \in Procs, userId \in Users, instrumentId \in InstrumentIds :
    /\ req[p].pc = "persist"
    /\ req[p] = createOrderStart(userId, instrumentId, "BUY", "MARKET", 0,
                                 MaxCashAmount, 0)
    /\ req[p].dto.size > 0
    /\ req[p].dto.size * req[p].dto.price < MaxCashAmount

\* The valuation of the reported position of user u in instrument i.
reportedValuation(u, i) == valuationOf(getAllUserOrders(orders, u), i)

C20_TotalValueUsesAvailableCash ==
  \A u \in Users :
    totalValue(orders, u)
      = availableCashOf(orders, u)
          + SetSum([i \in InstrumentIds |->
                      IF ledgerQuantity(orders, u, i, Len(orders)) > 0
                      THEN ledgerQuantity(orders, u, i, Len(orders))
                             * marketPrice[i]
                      ELSE 0], InstrumentIds)

\* The table os without its row i.
WithoutRow(os, i) == SubSeq(os, 1, i - 1) \o SubSeq(os, i + 1, Len(os))

\* p re-validates in this step the LIMIT order it loaded, and the order is
\* still NEW in the table.
Revalidates(p) ==
  /\ req[p].pc = "exec_validate" /\ Steps(p)
  /\ orders[req[p].oid].status = "NEW"
  /\ orders[req[p].oid].type = "LIMIT"

\* C21: the execution of a NEW LIMIT BUY decides FILLED exactly when its
\* notional is within the total cash less the notional of the owner's other
\* NEW BUY orders, that of a NEW LIMIT SELL exactly when its size is within
\* the replayed quantity less the sizes of the owner's other NEW SELL orders
\* of the instrument; the save writes the status decided; an order that the
\* admission check accepts on the table without it is decided FILLED.
C21_ExecutionExcludesOwnReservation ==
  [][\A p \in Procs :
       /\ Revalidates(p) =>
            LET o == orders[req[p].oid]
                notional == o.size * o.price
                filled == req'[p].outcome = "FILLED"
            IN /\ req'[p].outcome \in {"FILLED", "REJECTED"}
               /\ o.side = "BUY" =>
                    (filled <=>
                       notional <= ledgerCashTotal(orders, o.userId)
                                     - (ledgerCashReserved(orders, o.userId)
                                          - notional))
               /\ o.side = "SELL" =>
                    (filled <=>
                       o.size <= ledgerQuantity(orders, o.userId,
                                                o.instrumentId, Len(orders))
                                   - (ledgerSharesReserved(orders, o.userId,
                                                          o.instrumentId)
                                        - o.size))
               /\ validateOrderFunds(WithoutRow(orders, req[p].oid),
                                     o.userId, o.instrumentId, o.side,
                                     o.size, o.price) => filled
       /\ (req[p].pc = "exec_save" /\ Steps(p)) =>
            orders'[req[p].oid].status = req[p].outcome]_vars

\* C21 witness: a LIMIT BUY that is still NEW has been decided REJECTED at
\* its execution although its notional alone is within the total cash.
C21_Witness ==
  \E p \in Procs :
    /\ req[p].pc = "exec_save" /\ req[p].outcome = "REJECTED"
    /\ orders[req[p].oid].status = "NEW"
    /\ orders[req[p].oid].type = "LIMIT"
    /\ orders[req[p].oid].side = "BUY"
    /\ orders[req[p].oid].size * orders[req[p].oid].price
         <= totalCashOf(orders, orders[req[p].oid].userId)

\* The list without its last element, and the last element.
Front(list) == SubSeq(list, 1, Len(list) - 1)

Last(list) == list[Len(list)]

\* The rows of instrument i in the table that the request of p is about:
\* those of its user.
ReplayedOrders(p, i) ==
  SelectSeq(orders, LAMBDA o : o.userId = req[p].dto.userId
                                 /\ o.instrumentId = i)

\* The weighted-average reference, order by order: a BUY of s at p sets
\* C = (Q * C + s * p) / (Q + s) and Q = Q + s; a SELL of s at p keeps C,
\* adds (p - C) * s to the realized gains and sets Q = Q - s.
RECURSIVE referenceReplay(_)
referenceReplay(list) ==
  IF list = <<>>
  THEN [quantity |-> 0, averageCost |-> Frac(0), realizedGains |-> Frac(0)]
  ELSE LET before == referenceReplay(Front(list))
           o == Last(list)
       IN IF o.side = "BUY"
          THEN [quantity |-> before.quantity + o.size,
                averageCost |->
                  FracDiv(FracAdd(FracMul(Frac(before.quantity),
                                          before.averageCost),
                                  Frac(o.size * o.price)),
                          Frac(before.quantity + o.size)),
                realizedGains |-> before.realizedGains]
          ELSE [quantity |-> before.quantity - o.size,
                averageCost |-> before.averageCost,
                realizedGains |->
                  FracAdd(before.realizedGains,
                          FracMul(FracSub(Frac(o.price), before.averageCost),
                                  Frac(o.size)))]

\* The reference with the two cases it leaves out: a SELL that finds no
\* quantity held (Q <= 0) changes nothing, and a BUY after which nothing is
\* held (Q + s <= 0) sets C = 0.
RECURSIVE heldReplay(_)
heldReplay(list) ==
  IF list = <<>>
  THEN [quantity |-> 0, averageCost |-> Frac(0), realizedGains |-> Frac(0)]
  ELSE LET before == heldReplay(Front(list))
           o == Last(list)
       IN IF o.side = "BUY"
          THEN [quantity |-> before.quantity + o.size,
                averageCost |->
                  IF before.quantity + o.size > 0
                  THEN FracDiv(FracAdd(FracMul(Frac(before.quantity),
                                               before.averageCost),
                                       Frac(o.size * o.price)),
                               Frac(before.quantity + o.size))
                  ELSE Frac(0),
                realizedGains |-> before.realizedGains]
          ELSE IF before.quantity <= 0 THEN before
          ELSE [quantity |-> before.quantity - o.size,
                averageCost |-> before.averageCost,
                realizedGains |->
                  FracAdd(before.realizedGains,
                          FracMul(FracSub(Frac(o.price), before.averageCost),
                                  Frac(o.size)))]

\* calculation has the quantity, average cost and realized gains of ref.
SameReplay(calculation, ref) ==
  /\ calculation.quantity = ref.quantity
  /\ FracEq(calculation.averageCost, ref.averageCost)
  /\ FracEq(calculation.realizedGains, ref.realizedGains)

\* C22 as stated: for every list of FILLED BUY/SELL orders of one instrument
\* the replay returns the quantity, average cost and realized gains of the
\* weighted-average reference.
C22_ReplayIsReference ==
  \A p \in Procs : req[p].op = "portfolio" =>
    \A i \in InstrumentIds :
      SameReplay(req[p].result[i], referenceReplay(ReplayedOrders(p, i)))

\* C22 amended: the replay returns the weighted-average reference result
\* where every SELL that finds the running quantity at or below zero is
\* left out and a BUY after which the quantity is not positive resets the
\* average cost to 0; a SELL that finds Q > 0 is applied in full
\* (C unchanged, gains + (p - C) * s, Q - s), also when s > Q.
C22_ReplayIsReferenceWhileHeld ==
  \A p \in Procs : req[p].op = "portfolio" =>
    \A i \in InstrumentIds :
      SameReplay(req[p].result[i], heldReplay(ReplayedOrders(p, i)))

\* C22 witness: BUY 1 at 1, BUY 1 at 3, SELL 1 at 3 has been replayed:
\* quantity 1, average cost 2, realized gains (3 - 2) * 1 = 1.
C22_Witness ==
  \E p \in Procs : \E i \in InstrumentIds :
    /\ req[p].op = "portfolio"
    /\ orders = <<SeedRow("BUY", "LIMIT", 1, 1, "FILLED"),
                  SeedRow("BUY", "LIMIT", 1, 3, "FILLED"),
                  SeedRow("SELL", "LIMIT", 1, 3, "FILLED")>>
    /\ req[p].result[i].quantity = 1
    /\ FracEq(req[p].result[i].averageCost, Frac(2))
    /\ FracEq(req[p].result[i].realizedGains, Frac(1))

\* The quantity held when every SELL larger than the running quantity is
\* skipped.
RECURSIVE heldAfter(_)
heldAfter(list) ==
  IF list = <<>> THEN 0
  ELSE LET q == heldAfter(Front(list))
           o == Last(list)
       IN IF o.side = "BUY" THEN q + o.size
          ELSE IF o.size > q THEN q ELSE q - o.size

\* C23: for every list of FILLED BUY/SELL orders the replay skips each SELL
\* that would take the running quantity below zero, so the quantity it
\* returns is the one held with those SELLs left out and is never negative.
C23_OversellingSellSkipped ==
  \A p \in Procs : req[p].op = "portfolio" =>
    \A i \in InstrumentIds :
      /\ req[p].result[i].quantity >= 0
      /\ req[p].result[i].quantity = heldAfter(ReplayedOrders(p, i))

\* C24: the realized gains booked for the FILLED SELL orders of a position
\* are kept when a LIMIT BUY of the same user and instrument is filled
\* afterwards, whenever that BUY was created: the fill of a NEW LIMIT BUY
\* leaves the realized gains of the position as they were.
C24_BookedGainsKept ==
  [][\A p \in Procs :
       (/\ req[p].pc = "exec_save" /\ Steps(p)
        /\ req[p].outcome = "FILLED"
        /\ orders[req[p].oid].status = "NEW"
        /\ orders[req[p].oid].type = "LIMIT"
        /\ orders[req[p].oid].side = "BUY"
        /\ orders[req[p].oid].userId \in Users) =>
         LET o == orders[req[p].oid]
         IN FracEq(valuationOf(getAllUserOrders(orders', o.userId),
                               o.instrumentId).realizedGains,
                   valuationOf(getAllUserOrders(orders, o.userId),
                               o.instrumentId).realizedGains)]_vars

\* The ids of the NEW orders of the table.
NewIds == {i \in DOMAIN orders : orders[i].status = "NEW"}

\* C25: processPendingOrders(limit) selects the limit oldest NEW orders in
\* ascending creation order; it works on them one at a time in that order,
\* every validation reading the table as the previous attempts left it; an
\* attempt that fails writes REJECTED and the batch goes on to the next
\* selected order; the batch returns only when none is left, and then no
\* order up to the last selected one is NEW.
C25_BatchProcessesAllSelected ==
  [][\A p \in Procs :
       /\ \A limit \in 1..MaxLimit :
            processPendingOrders(p, limit) =>
              LET selected == IF req'[p].pc = "done" THEN <<>>
                              ELSE <<req'[p].oid>> \o req'[p].queue
                  ids == {selected[k] : k \in DOMAIN selected}
              IN /\ ids \subseteq NewIds
                 /\ Len(selected) = IF Cardinality(NewIds) < limit
                                    THEN Cardinality(NewIds) ELSE limit
                 /\ \A k \in DOMAIN selected :
                      k > 1 => selected[k - 1] < selected[k]
                 /\ \A i \in NewIds \ ids : \A j \in ids : j < i
       /\ (req[p].op = "batch" /\ req[p].pc # "done" /\ Steps(p)) =>
            /\ req'[p].op = "batch"
            /\ \/ req'[p].oid = req[p].oid /\ req'[p].queue = req[p].queue
               \/ /\ req[p].queue # <<>>
                  /\ req'[p].oid = Head(req[p].queue)
                  /\ req'[p].queue = Tail(req[p].queue)
                  /\ req'[p].pc = "exec_load"
            /\ req'[p].pc = "done" =>
                 /\ req'[p].queue = <<>>
                 /\ \A i \in DOMAIN orders' :
                      i <= req'[p].oid => orders'[i].status # "NEW"
            /\ req[p].pc = "exec_validate" =>
                 (req'[p].outcome = "FILLED" <=>
                    validateOrderAtExecutionExcludingCurrent(
                      orders, orders[req[p].oid]))
            /\ (req[p].pc = "exec_save" /\ req[p].outcome = "REJECTED") =>
                 /\ orders'[req[p].oid].status = "REJECTED"
                 /\ req[p].queue # <<>> =>
                      /\ req'[p].pc = "exec_load"
                      /\ req'[p].oid = Head(req[p].queue)]_vars

\* C25 witness: a batch is about to write REJECTED for one selected order
\* and has another selected order left.
C25_Witness ==
  \E p \in Procs :
    /\ req[p].op = "batch" /\ req[p].pc = "exec_save"
    /\ req[p].outcome = "REJECTED"
    /\ req[p].queue # <<>>

FillsLimit(p, side) ==
  /\ req[p].pc = "exec_save" /\ Steps(p)
  /\ req[p].outcome = "FILLED"
  /\ orders[req[p].oid].status = "NEW"
  /\ orders[req[p].oid].type = "LIMIT"
  /\ orders[req[p].oid].side = side

\* The fill of a NEW LIMIT BUY lowers the total and the reserved cash of the
\* owner by size * price and keeps the available cash.
BuyFillKeepsAvailable(p) ==
  FillsLimit(p, "BUY") =>
    LET o == orders[req[p].oid]
        before == calculateCashBalance(getAllUserOrders(orders, o.userId))
        after == calculateCashBalance(getAllUserOrders(orders', o.userId))
    IN /\ after.total = before.total - o.size * o.price
       /\ after.reserved = before.reserved - o.size * o.price
       /\ after.available = before.available

\* The fill of a NEW LIMIT SELL keeps the available quantity of the
\* instrument.
SellFillKeepsAvailable(p) ==
  FillsLimit(p, "SELL") =>
    LET o == orders[req[p].oid]
    IN availableSharesOf(orders', o.userId, o.instrumentId)
         = availableSharesOf(orders, o.userId, o.instrumentId)

C28_LimitExecutionIgnoresMarket ==
  [][\A p \in Procs :
       /\ Revalidates(p) =>
            \A marketPrices \in [InstrumentIds -> 0..MaxPrice] :
              (req'[p].outcome = "FILLED")
                <=> validateOrderAtExecutionWithPrices(
                      orders, orders[req[p].oid], marketPrices)
       /\ (/\ req[p].pc = "exec_save" /\ Steps(p)
           /\ orders[req[p].oid].type = "LIMIT") =>
            /\ Len(orders') = Len(orders)
            /\ \A i \in DOMAIN orders :
                 /\ i # req[p].oid => orders'[i] = orders[i]
                 /\ orders'[i] = [orders[i] EXCEPT !.status = orders'[i].status]
            /\ orders'[req[p].oid].status \in {"FILLED", "REJECTED"}]_vars

\* C28 witness: processOrderById has filled a LIMIT order whose stored price
\* differs from the market price of its instrument.
C28_Witness ==
  \E p \in Procs :
    /\ req[p].op = "process" /\ req[p].pc = "reload"
    /\ orders[req[p].oid].status = "FILLED"
    /\ orders[req[p].oid].type = "LIMIT"
    /\ orders[req[p].oid].price # marketPrice[orders[req[p].oid].instrumentId]
    /\ marketPrice[orders[req[p].oid].instrumentId] > 0

\* The rows of the table that belong to userId, in the order of the table.
OwnOrders(os, userId) == SelectSeq(os, LAMBDA o : o.userId = userId)

\* Some row of another holder would enter userId's balances if it were read.
OthersMatter(userId) ==
  \E i \in DOMAIN orders :
    /\ orders[i].userId # userId
    /\ orders[i].status \in {"FILLED", "NEW"}
    /\ orders[i].side \in {"CASH_IN", "BUY"}

\* C29: what createOrder decides for a user and what getPortfolio reports to
\* the user are what they would be on the table without the rows of every
\* other holder, so two tables that differ only in those rows give the same
\* status, cash balance, positions and total value.
C29_OwnOrdersOnly ==
  [][\A p \in Procs :
       /\ (Admits(p) /\ req'[p].pc = "persist") =>
            LET dto == req'[p].dto
            IN dto.status =
                 determineInitialStatus(OwnOrders(orders, dto.userId),
                   dto.userId, dto.instrumentId, dto.side, dto.size, dto.price)
       /\ (req'[p].op = "portfolio" /\ Steps(p) /\ req'[p].err = "none") =>
            LET userId == req'[p].dto.userId
                own == OwnOrders(orders, userId)
            IN /\ req'[p].result.cashBalance = getPortfolio(own, userId).cashBalance
               /\ req'[p].result.positions = getPortfolio(own, userId).positions
               /\ req'[p].result.totalValue = totalValue(own, userId)]_vars

\* C29 witness: a request of a user has been decided or answered on a table
\* that holds an order of another holder which moves that holder's cash.
C29_Witness ==
  \E p \in Procs :
    /\ \/ req[p].op = "create" /\ req[p].pc = "persist"
       \/ req[p].op = "portfolio" /\ req[p].pc = "done" /\ req[p].err = "none"
    /\ req[p].dto.userId \in Users
    /\ OthersMatter(req[p].dto.userId)
    /\ OwnOrders(orders, req[p].dto.userId) # <<>>

\* C30: while processPendingOrders is called again and again with a limit
\* of at least 1 and no order is created, every order that is NEW is
\* eventually FILLED, REJECTED or CANCELLED.
C30_PendingEventuallyTerminal ==
  \A i \in 1..Len(SeedOrders) + MaxPending :
    (i \in DOMAIN orders /\ orders[i].status = "NEW")
      ~> (i \in DOMAIN orders /\ orders[i].status \in Terminal)

\* C30 witness: a batch has returned, no order is NEW any more, and of the
\* orders that were pending behind an older one, one was filled and one
\* rejected.
C30_Witness ==
  /\ NewIds = {}
  /\ \E p \in Procs : req[p].op = "batch" /\ req[p].pc = "done"
  /\ \E i, j \in DOMAIN orders :
       /\ i > Len(SeedOrders) + 1 /\ j > Len(SeedOrders) + 1
       /\ orders[i].type = "LIMIT" /\ orders[i].status = "FILLED"
       /\ orders[j].status = "REJECTED"
====
